---- MODULE Spec2Model ----
(***************************************************************************)
(* Model of the Mini Data Query Simulation Engine: an Express server that  *)
(* validates a natural-language question with a language model, has the    *)
(* model translate it to SQL, screens the SQL with a regex denylist and    *)
(* runs it on an SQLite store.                                             *)
(*                                                                         *)
(* Strings are TLA+ strings, handled character by character with Len,      *)
(* SubSeq and \o, so that trim, split, toLowerCase and the regex are       *)
(* computed the way the JavaScript computes them.                          *)
(***************************************************************************)
EXTENDS Integers, Sequences, FiniteSets, TLC

VARIABLES
    listening,  \* server.listen has bound the port: requests are accepted
    dbOpen,     \* the module-level handle `db` has been assigned by openDB
    tables,     \* contents of sales.db
    req,        \* the request in flight: its locals, calls made and responses
    req2,       \* a second request in flight, when two are served at once
    env,        \* process.env after dotenv.config(): PORT and GITHUB_PAT
    exited,     \* the process ended on an error thrown while its modules load
    seeding     \* createDB: the run it is in and the statements it has run

vars == <<listening, dbOpen, tables, req, req2, env, exited, seeding>>

(***************************************************************************)
(* JavaScript values that may be undefined / null.                         *)
(***************************************************************************)
None == [defined |-> FALSE]
Some(v) == [defined |-> TRUE, value |-> v]

(***************************************************************************)
(* String primitives.                                                      *)
(***************************************************************************)
CharAt(s, i) == SubSeq(s, i, i)

\* what String.prototype.trim strips and what \s matches
WhitespaceChars == {" ", "\t", "\n", "\r"}

IsWhitespace(c) == c \in WhitespaceChars

UpperChars == "ABCDEFGHIJKLMNOPQRSTUVWXYZ"
LowerChars == "abcdefghijklmnopqrstuvwxyz"

\* the lower-case letter of each upper-case letter
LowerOf ==
    [c \in {CharAt(UpperChars, i) : i \in 1..Len(UpperChars)} |->
        CharAt(LowerChars,
               CHOOSE i \in 1..Len(UpperChars) : CharAt(UpperChars, i) = c)]

LowerChar(c) == IF c \in DOMAIN LowerOf THEN LowerOf[c] ELSE c

RECURSIVE ToLowerCase(_)
ToLowerCase(s) ==
    IF s = "" THEN ""
    ELSE IF Len(s) = 1 THEN LowerChar(s)
    ELSE LET half == Len(s) \div 2
         IN  ToLowerCase(SubSeq(s, 1, half))
             \o ToLowerCase(SubSeq(s, half + 1, Len(s)))

RECURSIVE TrimStart(_)
TrimStart(s) ==
    IF s # "" /\ IsWhitespace(Head(s)) THEN TrimStart(Tail(s)) ELSE s

RECURSIVE TrimEnd(_)
TrimEnd(s) ==
    IF s # "" /\ IsWhitespace(CharAt(s, Len(s)))
    THEN TrimEnd(SubSeq(s, 1, Len(s) - 1))
    ELSE s

Trim(s) == TrimEnd(TrimStart(s))

\* true when the characters of s from position i on start with w
StartsWithAt(s, i, w) ==
    /\ i >= 1
    /\ i + Len(w) - 1 <= Len(s)
    /\ SubSeq(s, i, i + Len(w) - 1) = w

\* position of the first occurrence of d in s, 0 when there is none
IndexOf(s, d) ==
    IF \E i \in 1..Len(s) : StartsWithAt(s, i, d)
    THEN CHOOSE i \in 1..Len(s) :
            /\ StartsWithAt(s, i, d)
            /\ \A j \in 1..(i - 1) : ~StartsWithAt(s, j, d)
    ELSE 0

\* String.prototype.split with a non-empty string separator
RECURSIVE Split(_, _)
Split(s, d) ==
    LET i == IndexOf(s, d)
    IN  IF i = 0
        THEN <<s>>
        ELSE <<SubSeq(s, 1, i - 1)>> \o Split(SubSeq(s, i + Len(d), Len(s)), d)

\* Array.prototype.join
RECURSIVE Join(_, _)
Join(parts, d) ==
    IF parts = <<>> THEN ""
    ELSE IF Len(parts) = 1 THEN parts[1]
    ELSE parts[1] \o d \o Join(Tail(parts), d)

\* a run of one or more whitespace characters covers positions i..j-1
WhitespaceRun(s, i, j) ==
    /\ j > i
    /\ \A k \in i..(j - 1) : IsWhitespace(CharAt(s, k))

\* the regex  w1\s+w2  anywhere in t; the i flag is the lower-casing of the
\* subject by the caller, w1 and w2 being in lower case
MatchesPair(t, w1, w2) ==
    \E i \in 1..Len(t) :
        /\ StartsWithAt(t, i, w1)
        /\ \E j \in (i + Len(w1) + 1)..Len(t) :
                /\ WhitespaceRun(t, i + Len(w1), j)
                /\ StartsWithAt(t, j, w2)

\* a denylist that lost three of its alternatives
IsDestructiveDropOnly(sqlQuery) ==
    MatchesPair(ToLowerCase(sqlQuery), "drop", "table")

\* a denylist whose two words must be one space apart
IsDestructiveSingleSpace(sqlQuery) ==
    LET t == ToLowerCase(sqlQuery)
    IN  \E phrase \in {"drop table", "delete from", "alter table", "update set"} :
            \E i \in 1..Len(t) : StartsWithAt(t, i, phrase)

\* /DROP\s+TABLE|DELETE\s+FROM|ALTER\s+TABLE|UPDATE\s+SET/i.test(sqlQuery)
IsDestructive(sqlQuery) ==
    LET t == ToLowerCase(sqlQuery)
    IN  \/ MatchesPair(t, "drop", "table")
        \/ MatchesPair(t, "delete", "from")
        \/ MatchesPair(t, "alter", "table")
        \/ MatchesPair(t, "update", "set")

(***************************************************************************)
(* The store: three tables, seeded by insertInitialData.                   *)
(***************************************************************************)
EmptyTables ==
    [categories |-> <<>>, products |-> <<>>, sales |-> <<>>, dropped |-> {}]

\* INTEGER PRIMARY KEY AUTOINCREMENT
NextId(rows) ==
    IF rows = <<>> THEN 1
    ELSE 1 + CHOOSE m \in {rows[i].id : i \in 1..Len(rows)} :
                \A i \in 1..Len(rows) : rows[i].id <= m

SeedCategories == <<"Electronics", "Furniture", "Clothing", "Grocery">>

SeedProducts ==
    << <<"Laptop", 1, 1200>>, <<"Smartphone", 1, 800>>, <<"Tablet", 1, 500>>,
       <<"Desk", 2, 300>>, <<"Chair", 2, 150>>, <<"Sofa", 2, 700>>,
       <<"T-Shirt", 3, 25>>, <<"Jeans", 3, 40>>, <<"Jacket", 3, 100>>,
       <<"Milk", 4, 5>>, <<"Bread", 4, 3>> >>

\* the sales rows with revenue and quantity_sold changing places
SeedSalesQuantityFirst ==
    <<<<1, 10, 1200, "2024-03-15">>, <<2, 15, 800, "2024-03-10">>,
      <<3, 8, 500, "2024-02-20">>, <<4, 5, 300, "2024-01-25">>,
      <<5, 12, 150, "2024-02-10">>, <<6, 3, 700, "2024-03-05">>,
      <<7, 50, 25, "2024-03-18">>, <<8, 30, 40, "2024-03-12">>,
      <<9, 20, 100, "2024-02-15">>, <<10, 100, 5, "2024-03-17">>,
      <<11, 90, 3, "2024-03-16">>>>

SeedSales ==
    << <<1, 1200, 10, "2024-03-15">>, <<2, 800, 15, "2024-03-10">>,
       <<3, 500, 8, "2024-02-20">>, <<4, 300, 5, "2024-01-25">>,
       <<5, 150, 12, "2024-02-10">>, <<6, 700, 3, "2024-03-05">>,
       <<7, 25, 50, "2024-03-18">>, <<8, 40, 30, "2024-03-12">>,
       <<9, 100, 20, "2024-02-15">>, <<10, 5, 100, "2024-03-17">>,
       <<11, 3, 90, "2024-03-16">> >>

\* INSERT INTO categories (name) SELECT ? WHERE NOT EXISTS (... name = ?)
InsertCategoryIfAbsent(t, name) ==
    IF \E i \in 1..Len(t.categories) : t.categories[i].name = name
    THEN t
    ELSE [t EXCEPT !.categories =
            Append(@, [id |-> NextId(t.categories), name |-> name])]

\* INSERT INTO products ... WHERE NOT EXISTS (... name = ?)
InsertProductIfAbsent(t, p) ==
    IF \E i \in 1..Len(t.products) : t.products[i].name = p[1]
    THEN t
    ELSE [t EXCEPT !.products =
            Append(@, [id |-> NextId(t.products), name |-> p[1],
                       category_id |-> p[2], price |-> p[3]])]

\* INSERT INTO sales without its WHERE NOT EXISTS
InsertSaleAlways(t, s) ==
    [t EXCEPT !.sales =
        Append(@, [id |-> NextId(t.sales), product_id |-> s[1],
                   revenue |-> s[2], quantity_sold |-> s[3],
                   sale_date |-> s[4]])]

\* INSERT INTO sales ... WHERE NOT EXISTS (... product_id = ? AND sale_date = ?)
InsertSaleIfAbsent(t, s) ==
    IF \E i \in 1..Len(t.sales) :
            t.sales[i].product_id = s[1] /\ t.sales[i].sale_date = s[4]
    THEN t
    ELSE [t EXCEPT !.sales =
            Append(@, [id |-> NextId(t.sales), product_id |-> s[1],
                       revenue |-> s[2], quantity_sold |-> s[3],
                       sale_date |-> s[4]])]

RECURSIVE InsertCategories(_, _)
InsertCategories(t, names) ==
    IF names = <<>> THEN t
    ELSE InsertCategories(InsertCategoryIfAbsent(t, Head(names)), Tail(names))

RECURSIVE InsertProducts(_, _)
InsertProducts(t, ps) ==
    IF ps = <<>> THEN t
    ELSE InsertProducts(InsertProductIfAbsent(t, Head(ps)), Tail(ps))

RECURSIVE InsertSales(_, _)
InsertSales(t, ss) ==
    IF ss = <<>> THEN t
    ELSE InsertSales(InsertSaleIfAbsent(t, Head(ss)), Tail(ss))

insertInitialData(t) ==
    InsertSales(InsertProducts(InsertCategories(t, SeedCategories), SeedProducts),
                SeedSales)

\* sales.db as `npm run createDB` leaves it
SeededTables == insertInitialData(EmptyTables)

\* the statements of insertInitialData in the order createDB awaits them
SeedStatements ==
    [i \in 1..Len(SeedCategories) |-> <<"category", SeedCategories[i]>>]
    \o [i \in 1..Len(SeedProducts) |-> <<"product", SeedProducts[i]>>]
    \o [i \in 1..Len(SeedSales) |-> <<"sale", SeedSales[i]>>]

\* one awaited db.run of insertInitialData
RunSeedStatement(t, statement) ==
    CASE statement[1] = "category" -> InsertCategoryIfAbsent(t, statement[2])
      [] statement[1] = "product" -> InsertProductIfAbsent(t, statement[2])
      [] statement[1] = "sale" -> InsertSaleIfAbsent(t, statement[2])

\* createDB has run to its end once
SeedingDone == [run |-> 1, step |-> Len(SeedStatements)]

(***************************************************************************)
(* db.all(sql): what SQLite does with the statements the model can return. *)
(* A statement is recognised after folding case and whitespace; anything   *)
(* else is a syntax error.                                                 *)
(***************************************************************************)
\* positions lo..hi of s with every run of whitespace folded to one space
RECURSIVE CollapseRange(_, _, _)
CollapseRange(s, lo, hi) ==
    IF lo > hi THEN ""
    ELSE IF lo = hi
    THEN IF ~IsWhitespace(CharAt(s, lo)) THEN CharAt(s, lo)
         ELSE IF lo > 1 /\ IsWhitespace(CharAt(s, lo - 1)) THEN ""
         ELSE " "
    ELSE LET mid == (lo + hi) \div 2
         IN  CollapseRange(s, lo, mid) \o CollapseRange(s, mid + 1, hi)

CollapseWhitespace(s) == CollapseRange(s, 1, Len(s))

StripSemicolon(s) ==
    IF s # "" /\ CharAt(s, Len(s)) = ";" THEN SubSeq(s, 1, Len(s) - 1) ELSE s

\* each step is computed once and handed on as a value
NormalizeSql(sql) ==
    CHOOSE n \in
        {Trim(StripSemicolon(t)) :
            t \in {Trim(c) :
                c \in {CollapseWhitespace(l) : l \in {ToLowerCase(sql)}}}} : TRUE

SqlSelectCategories == "SELECT name FROM categories"
SqlCountSales == "SELECT COUNT(*) AS n FROM sales"
SqlInsertCategory == "INSERT INTO categories (name) VALUES ('Toys')"
SqlUpdatePrices == "UPDATE products SET price = 0"
SqlDeleteSales == "DELETE FROM sales"
SqlDropSales == "DROP TABLE sales"
SqlRevenuePerProduct ==
    "SELECT products.name, SUM(sales.revenue) AS total_sales FROM products "
    \o "LEFT JOIN sales ON products.id = sales.product_id GROUP BY products.id"
SqlMoveProducts == "UPDATE products SET category_id = 99"

\* SELECT '<text>' : a one-row result holding the literal
IsSelectLiteral(sql) ==
    LET s == Trim(sql)
    IN  /\ Len(s) >= Len("SELECT ''")
        /\ ToLowerCase(SubSeq(s, 1, 8)) = "select '"
        /\ CharAt(s, Len(s)) = "'"
        /\ \A i \in 9..(Len(s) - 1) : CharAt(s, i) # "'"

\* the statements SQLite is given, folded once
Folded ==
    [sql \in {SqlSelectCategories, SqlCountSales, SqlInsertCategory,
              SqlUpdatePrices, SqlDeleteSales, SqlDropSales,
              SqlRevenuePerProduct, SqlMoveProducts} |->
        NormalizeSql(sql)]

\* the sales of one product
SalesOf(sales, productId) ==
    {i \in 1..Len(sales) : sales[i].product_id = productId}

\* SUM(sales.revenue) over the sales rows joined to one product
RECURSIVE SumRevenue(_, _)
SumRevenue(sales, productId) ==
    IF sales = <<>> THEN 0
    ELSE (IF Head(sales).product_id = productId THEN Head(sales).revenue ELSE 0)
         + SumRevenue(Tail(sales), productId)

\* products LEFT JOIN sales GROUP BY products.id: one row per product, in
\* the order of the ids; SUM over no row is NULL
RevenuePerProduct(t) ==
    [i \in 1..Len(t.products) |->
        [name |-> t.products[i].name,
         total_sales |->
            IF SalesOf(t.sales, t.products[i].id) = {} THEN None
            ELSE Some(SumRevenue(t.sales, t.products[i].id))]]

SqlOk(rows, t) == [ok |-> TRUE, rows |-> rows, tables |-> t]
\* db.all rejects; detail is the message of the error it rejects with
SqlError(t) ==
    [ok |-> FALSE, rows |-> <<>>, tables |-> t,
     detail |-> "SQLITE_ERROR: no such table or column"]
SqlConstraintError(t) ==
    [SqlError(t) EXCEPT
        !.detail = "SQLITE_CONSTRAINT: UNIQUE constraint failed: categories.name"]

DbAll(sql, t) ==
    LET n == NormalizeSql(sql)
    IN  CASE n = Folded[SqlSelectCategories] ->
                SqlOk([i \in 1..Len(t.categories) |->
                          [name |-> t.categories[i].name]], t)
          [] n = Folded[SqlCountSales] ->
                IF "sales" \in t.dropped THEN SqlError(t)
                ELSE SqlOk(<<[n |-> Len(t.sales)]>>, t)
          [] IsSelectLiteral(sql) ->
                LET s == Trim(sql)
                IN  SqlOk(<<[value |-> SubSeq(s, 9, Len(s) - 1)]>>, t)
          [] n = Folded[SqlInsertCategory] ->
                \* UNIQUE constraint on categories.name
                IF \E i \in 1..Len(t.categories) : t.categories[i].name = "Toys"
                THEN SqlConstraintError(t)
                ELSE SqlOk(<<>>, [t EXCEPT !.categories =
                        Append(@, [id |-> NextId(t.categories), name |-> "Toys"])])
          [] n = Folded[SqlUpdatePrices] ->
                SqlOk(<<>>, [t EXCEPT !.products =
                        [i \in 1..Len(t.products) |->
                            [t.products[i] EXCEPT !.price = 0]]])
          [] n = Folded[SqlDeleteSales] ->
                IF "sales" \in t.dropped THEN SqlError(t)
                ELSE SqlOk(<<>>, [t EXCEPT !.sales = <<>>])
          [] n = Folded[SqlDropSales] ->
                IF "sales" \in t.dropped THEN SqlError(t)
                ELSE SqlOk(<<>>, [t EXCEPT !.sales = <<>>,
                                           !.dropped = @ \cup {"sales"}])
          [] n = Folded[SqlRevenuePerProduct] ->
                IF "sales" \in t.dropped THEN SqlError(t)
                ELSE SqlOk(RevenuePerProduct(t), t)
          [] n = Folded[SqlMoveProducts] ->
                \* foreign keys are declared but never switched on: no check
                SqlOk(<<>>, [t EXCEPT !.products =
                        [i \in 1..Len(t.products) |->
                            [t.products[i] EXCEPT !.category_id = 99]]])
          [] OTHER -> SqlError(t)

(***************************************************************************)
(* Bounds of the inputs.                                                   *)
(***************************************************************************)
MaxPadding == 1        \* whitespace characters around a query
MaxVerdictTokens == 2  \* space-separated tokens in a generated validation reply
MaxGap == 1            \* whitespace characters between the two denylist words
MaxSegments == 2       \* "; "-separated segments in a generated translation reply
MaxSeedRuns == 4       \* times `npm run createDB` is run on the same sales.db

\* isLength({ max: 500 })
MaxQueryLength == 500

(***************************************************************************)
(* Responses (utils/responseTemplates) and the RESPONSE log line.          *)
(***************************************************************************)
logResponse(r, resMessage, statusCode) ==
    [r EXCEPT !.log = Append(@, [method |-> r.method, path |-> r.path,
                                 status |-> statusCode, message |-> resMessage])]

\* res.status(statusCode).json(body); every call site returns right after
Respond(r, statusCode, body) ==
    [r EXCEPT !.responses = Append(@, [status |-> statusCode, body |-> body]),
              !.pc = "done"]

sendClientSideError(r, errMsg, statusCode) ==
    Respond(logResponse(r, errMsg, statusCode), statusCode, [error |-> errMsg])

sendServerSideError(r, err, statusCode) ==
    Respond(logResponse(r, "Server Side Error", statusCode), statusCode,
            [error |-> err])

\* { message, ...additionals }; additionals holds the defined fields only,
\* as JSON.stringify drops the undefined ones
sendSuccessResponse(r, message, statusCode, additionals) ==
    Respond(logResponse(r, message, statusCode), statusCode,
            additionals @@ [message |-> message])

\* catch (err) { next(err) }: the request goes to the global error handler
PassToNext(r, err) ==
    [r EXCEPT !.nextErrors = Append(@, err), !.pc = "errorHandler"]

\* one field of an object literal, left out when its value is undefined
Field(name, maybe) ==
    IF maybe.defined THEN (name :> maybe.value) ELSE <<>>

(***************************************************************************)
(* The request in flight.                                                  *)
(***************************************************************************)
IdleRequest ==
    [pc |-> "idle",
     method |-> "",             \* req.method
     path |-> "",               \* req.originalUrl
     malformed |-> FALSE,       \* the body is not JSON: express.json() fails
     route |-> "",              \* the route that matched
     sent |-> None,             \* the query field of the body as it was sent
     query |-> None,            \* req.body.query
     validationResult |-> None,
     sqlQuery |-> None,
     explanation |-> None,
     rows |-> None,
     gatewayCalls |-> <<>>,     \* chat.completions.create calls and how they settled
     executed |-> <<>>,         \* statements handed to db.all and how they settled
     dbHandle |-> None,         \* whether `db` was assigned when db.all was called
     responses |-> <<>>,
     nextErrors |-> <<>>,
     log |-> <<>>]

\* llmClient.chat.completions.create(...)
CallGateway(r, kind) ==
    [r EXCEPT !.gatewayCalls =
        Append(@, [kind |-> kind, query |-> r.query.value, reply |-> None])]

\* the pending gateway call settles with reply
SettleCall(r, reply) ==
    [r EXCEPT !.gatewayCalls[Len(r.gatewayCalls)].reply = Some(reply)]

\* db.all(sql) is called on the open connection
CallDb(r, sql) ==
    [r EXCEPT !.executed = Append(@, [sql |-> sql, outcome |-> "pending"])]

\* the pending db.all settles
SettleDb(r, result) ==
    [r EXCEPT !.executed[Len(r.executed)].outcome =
        IF result.ok THEN "ok" ELSE "error"]

(***************************************************************************)
(* What the language model service can answer.                             *)
(***************************************************************************)
\* a rejected chat.completions.create; content is the message of the error
GatewayFailure == [kind |-> "error", content |-> "Request timed out."]
GatewayRefusal == [kind |-> "error", content |-> "401 Bad credentials"]
GatewayFailures == {GatewayFailure, GatewayRefusal}
MalformedReplies ==
    {[kind |-> k, content |-> ""] :
        k \in {"noChoices", "emptyChoices", "noMessage", "nullContent"}}
ContentReply(c) == [kind |-> "content", content |-> c]

(***************************************************************************)
(* validateQuery, from the point where the gateway call settles.           *)
(***************************************************************************)
FailedVerdict ==
    [isValid |-> FALSE, isAligned |-> FALSE,
     justification |-> "Failed to validate query."]

Returned(v) == [threw |-> FALSE, error |-> "", result |-> v]
Threw(e) == [threw |-> TRUE, error |-> e, result |-> FailedVerdict]

\* validateQuery without the trim of the reply
validateQueryUntrimmed(reply) ==
    IF reply.kind = "error"
    THEN Threw("Failed to validate query")
    ELSE IF reply.kind \in {"noChoices", "emptyChoices"}
    THEN Returned(FailedVerdict)
    ELSE LET validationMessage ==
                IF reply.kind = "content" THEN reply.content ELSE ""
             parts == Split(validationMessage, " ")
         IN  IF validationMessage = ""
             THEN Returned(FailedVerdict)
             ELSE IF Len(parts) < 2
             THEN Threw("TypeError")
             ELSE Returned(
                    [isValid |-> ToLowerCase(parts[1]) = "yes",
                     isAligned |-> ToLowerCase(parts[2]) = "yes",
                     justification |-> Join(SubSeq(parts, 3, Len(parts)), " ")])

validateQuery(reply) ==
    IF reply.kind = "error"
    THEN Threw("Failed to validate query")
    ELSE IF reply.kind \in {"noChoices", "emptyChoices"}
    THEN Returned(FailedVerdict)
    ELSE LET validationMessage ==
                IF reply.kind = "content" THEN Trim(reply.content) ELSE ""
             parts == Split(validationMessage, " ")
         IN  IF validationMessage = ""
             THEN Returned(FailedVerdict)
             ELSE IF Len(parts) < 2
             THEN \* isAligned is undefined: isAligned.toLowerCase() throws
                  Threw("TypeError")
             ELSE Returned(
                    [isValid |-> ToLowerCase(parts[1]) = "yes",
                     isAligned |-> ToLowerCase(parts[2]) = "yes",
                     justification |-> Join(SubSeq(parts, 3, Len(parts)), " ")])

(***************************************************************************)
(* queryValidation (middlewares/query): body("query").trim()               *)
(*   .exists({checkFalsy: true}).isLength({max: 500}), then the error      *)
(* handler of the chain.                                                   *)
(***************************************************************************)
\* the sanitizer: a missing field is treated as the empty string
\* the chain without trim()
SanitizeNoTrim(sent) == IF sent.defined THEN sent.value ELSE ""

Sanitize(sent) == IF sent.defined THEN Trim(sent.value) ELSE ""

\* the length check off by one
ValidationErrorsOffByOne(value) ==
    (IF value = "" THEN <<"Query is required">> ELSE <<>>)
    \o (IF Len(value) > MaxQueryLength + 1
        THEN <<"Query can only be a maximum of 500 characters">>
        ELSE <<>>)

\* exists() without checkFalsy: the empty string counts as present
ValidationErrorsNoFalsy(value) ==
    IF Len(value) > MaxQueryLength
    THEN <<"Query can only be a maximum of 500 characters">>
    ELSE <<>>

ValidationErrors(value) ==
    (IF value = "" THEN <<"Query is required">> ELSE <<>>)
    \o (IF Len(value) > MaxQueryLength
        THEN <<"Query can only be a maximum of 500 characters">>
        ELSE <<>>)

\* the error handler of the chain without its return: it answers 400 and
\* calls next() as well
queryValidationNoReturn(r) ==
    LET value == Sanitize(r.query)
        errors == ValidationErrors(value)
        r1 == [r EXCEPT !.query = Some(value)]
    IN  IF errors # <<>>
        THEN [CallGateway(sendClientSideError(r1, errors[1], 400), "validate")
                EXCEPT !.pc = "awaitValidation"]
        ELSE [CallGateway(r1, "validate") EXCEPT !.pc = "awaitValidation"]

\* the chain followed by the first step of the handler: validateQuery(query)
\* runs up to its await of the gateway call
queryValidation(r) ==
    LET value == Sanitize(r.query)
        errors == ValidationErrors(value)
        r1 == [r EXCEPT !.query = Some(value)]
    IN  IF errors # <<>>
        THEN sendClientSideError(r1, errors[1], 400)
        ELSE [CallGateway(r1, "validate") EXCEPT !.pc = "awaitValidation"]

(***************************************************************************)
(* queryHandler, one definition per stretch between two awaits.            *)
(***************************************************************************)
InvalidQueryMessage(verdict) == "Invalid query: " \o verdict.justification

\* queryHandler without its second check, of isAligned
queryHandlerValidatedNoAligned(r, reply) ==
    LET v == validateQuery(reply)
        r1 == [r EXCEPT !.validationResult = Some(v.result)]
    IN  IF v.threw THEN PassToNext(r, v.error)
        ELSE IF ~v.result.isValid
        THEN sendClientSideError(r1, InvalidQueryMessage(v.result), 400)
        ELSE [CallGateway(r1, "translate") EXCEPT !.pc = "awaitTranslation"]

\* queryHandler catching a failed validation call and answering 400
queryHandlerValidatedSwallow(r, reply) ==
    LET v == validateQuery(reply)
        r1 == [r EXCEPT !.validationResult = Some(v.result)]
    IN  IF v.threw \/ ~v.result.isValid \/ ~v.result.isAligned
        THEN sendClientSideError(r1, InvalidQueryMessage(v.result), 400)
        ELSE [CallGateway(r1, "translate") EXCEPT !.pc = "awaitTranslation"]

queryHandlerValidated(r, reply) ==
    LET v == validateQuery(reply)
        r1 == [r EXCEPT !.validationResult = Some(v.result)]
    IN  IF v.threw THEN PassToNext(r, v.error)
        ELSE IF ~v.result.isValid
        THEN sendClientSideError(r1, InvalidQueryMessage(v.result), 400)
        ELSE IF ~v.result.isAligned
        THEN sendClientSideError(r1, InvalidQueryMessage(v.result), 400)
        ELSE [CallGateway(r1, "translate") EXCEPT !.pc = "awaitTranslation"]

\* const [sqlQuery, explanation] = responseMessage.split("; ")
SplitReply(r, responseMessage) ==
    LET parts == Split(responseMessage, "; ")
    IN  [r EXCEPT !.sqlQuery = Some(parts[1]),
                  !.explanation = IF Len(parts) >= 2 THEN Some(parts[2]) ELSE None]

\* queryHandler without the check of an empty reply
queryHandlerTranslatedUnchecked(r, reply, open) ==
    IF reply.kind = "error"
    THEN PassToNext(r, reply.content)
    ELSE IF reply.kind \in {"noChoices", "emptyChoices", "noMessage", "nullContent"}
    THEN PassToNext(r, "TypeError")
    ELSE LET r1 == SplitReply(r, reply.content)
             r2 == [r1 EXCEPT !.dbHandle = Some(open)]
         IN  IF IsDestructive(r1.sqlQuery.value)
             THEN sendClientSideError(r1,
                    "Potentially destructive queries are not allowed.", 400)
             ELSE IF ~open
             THEN sendServerSideError(r2, "Failed to execute SQL query", 500)
             ELSE [CallDb(r2, r2.sqlQuery.value) EXCEPT !.pc = "awaitDb"]

queryHandlerTranslated(r, reply, open) ==
    IF reply.kind = "error"
    THEN PassToNext(r, reply.content)
    ELSE IF reply.kind \in {"noChoices", "emptyChoices", "noMessage"}
    THEN \* llmResponse.choices[0].message.content throws
         PassToNext(r, "TypeError")
    ELSE IF reply.kind = "nullContent" \/ reply.content = ""
    THEN sendServerSideError(r, "Failed to generate SQL query", 500)
    ELSE LET r1 == SplitReply(r, reply.content)
             r2 == [r1 EXCEPT !.dbHandle = Some(open)]
         IN  IF IsDestructive(r1.sqlQuery.value)
             THEN sendClientSideError(r1,
                    "Potentially destructive queries are not allowed.", 400)
             ELSE IF ~open
             THEN \* db is still undefined: db.all throws inside the inner try
                  sendServerSideError(r2, "Failed to execute SQL query", 500)
             ELSE [CallDb(r2, r2.sqlQuery.value) EXCEPT !.pc = "awaitDb"]

\* queryHandler without the inner try/catch around db.all
queryHandlerExecutedUncaught(r, result) ==
    IF ~result.ok
    THEN PassToNext(r, "SQLITE_ERROR")
    ELSE sendSuccessResponse([r EXCEPT !.rows = Some(result.rows)],
            "Query translated and executed successfully!", 200,
            [sqlQuery |-> r.sqlQuery.value, rows |-> result.rows]
                @@ Field("explanation", r.explanation))

\* queryHandler running a failed statement a second time
queryHandlerExecutedRetry(r, result) ==
    IF ~result.ok
    THEN IF Len(r.executed) < 2
         THEN [CallDb(r, r.sqlQuery.value) EXCEPT !.pc = "awaitDb"]
         ELSE sendServerSideError(r, "Failed to execute SQL query", 500)
    ELSE sendSuccessResponse([r EXCEPT !.rows = Some(result.rows)],
            "Query translated and executed successfully!", 200,
            [sqlQuery |-> r.sqlQuery.value, rows |-> result.rows]
                @@ Field("explanation", r.explanation))

\* queryHandler answering with the message of the storage error
queryHandlerExecutedLeaking(r, result) ==
    IF ~result.ok
    THEN sendServerSideError(r, result.detail, 500)
    ELSE sendSuccessResponse([r EXCEPT !.rows = Some(result.rows)],
            "Query translated and executed successfully!", 200,
            [sqlQuery |-> r.sqlQuery.value, rows |-> result.rows]
                @@ Field("explanation", r.explanation))

\* result is what db.all(sqlQuery) settled with
queryHandlerExecuted(r, result) ==
    IF ~result.ok
    THEN sendServerSideError(r, "Failed to execute SQL query", 500)
    ELSE sendSuccessResponse([r EXCEPT !.rows = Some(result.rows)],
            "Query translated and executed successfully!", 200,
            [sqlQuery |-> r.sqlQuery.value, rows |-> result.rows]
                @@ Field("explanation", r.explanation))

(***************************************************************************)
(* validateHandler and explainHandler.                                     *)
(***************************************************************************)
validateHandlerValidated(r, reply) ==
    LET v == validateQuery(reply)
        r1 == [r EXCEPT !.validationResult = Some(v.result)]
    IN  IF v.threw THEN PassToNext(r, v.error)
        ELSE IF ~v.result.isValid \/ ~v.result.isAligned
        THEN sendClientSideError(r1, InvalidQueryMessage(v.result), 400)
        ELSE sendSuccessResponse(r1, "Validation of query successful!", 200,
                [justification |-> v.result.justification])

explainHandlerValidated(r, reply) ==
    LET v == validateQuery(reply)
        r1 == [r EXCEPT !.validationResult = Some(v.result)]
    IN  IF v.threw THEN PassToNext(r, v.error)
        ELSE IF ~v.result.isValid \/ ~v.result.isAligned
        THEN sendClientSideError(r1, InvalidQueryMessage(v.result), 400)
        ELSE [CallGateway(r1, "translate") EXCEPT !.pc = "awaitTranslation"]

\* explainHandler running the statement it explains
explainHandlerTranslatedExecuting(r, reply) ==
    IF reply.kind = "error"
    THEN PassToNext(r, reply.content)
    ELSE IF reply.kind \in {"noChoices", "emptyChoices", "noMessage"}
    THEN PassToNext(r, "TypeError")
    ELSE IF reply.kind = "nullContent" \/ reply.content = ""
    THEN sendServerSideError(r,
            "Failed to generate simulated query explanation", 500)
    ELSE LET r1 == SplitReply(r, reply.content)
         IN  [CallDb(r1, r1.sqlQuery.value) EXCEPT !.pc = "awaitDb"]

explainHandlerTranslated(r, reply) ==
    IF reply.kind = "error"
    THEN PassToNext(r, reply.content)
    ELSE IF reply.kind \in {"noChoices", "emptyChoices", "noMessage"}
    THEN PassToNext(r, "TypeError")
    ELSE IF reply.kind = "nullContent" \/ reply.content = ""
    THEN sendServerSideError(r,
            "Failed to generate simulated query explanation", 500)
    ELSE LET r1 == SplitReply(r, reply.content)
         IN  sendSuccessResponse(r1, "Explanation generated successfully!", 200,
                [sqlQuery |-> r1.sqlQuery.value]
                    @@ Field("explanation", r1.explanation))

\* a health check that asks the store
healthHandlerPingingStore(r) ==
    sendSuccessResponse(SettleDb(CallDb(r, "SELECT 1"), [ok |-> TRUE]),
                        "I'm fine!", 200, <<>>)

\* app.get("/health")
healthHandler(r) == sendSuccessResponse(r, "I'm fine!", 200, <<>>)

\* middlewares/handlers: an error passed to next(err) is answered with 500
\* and the uniform error envelope
globalErrorHandler(r) == sendServerSideError(r, "Server Side Error", 500)

\* middlewares/handlers: a body that express.json() cannot parse is answered
\* with 400 and the error envelope
incorrectJSONFormatHandler(r) == sendClientSideError(r, "Incorrect JSON format", 400)

\* middlewares/handlers: a request no route matched is answered with 404 and
\* the error envelope
urlNotFoundHandler(r) == sendClientSideError(r, "URL not found", 404)

(***************************************************************************)
(* Inputs: what clients send and what the model service answers.           *)
(***************************************************************************)
RECURSIVE Repeat(_, _)
Repeat(c, n) ==
    IF n = 0 THEN ""
    ELSE LET half == Repeat(c, n \div 2)
         IN  half \o half \o (IF n % 2 = 1 THEN c ELSE "")

PipelineRoutes == {"/query", "/validate", "/explain"}
Routes == PipelineRoutes \cup {"/health"}

Methods == {"GET", "POST"}
Paths == Routes \cup {"/unknown"}

\* the router when it only knew POST /query
MatchRouteQueryOnly(method, path) ==
    IF method = "GET" /\ path = "/health" THEN "/health"
    ELSE IF method = "POST" /\ path = "/query" THEN path
    ELSE "*"

\* app.get("/health"), router.post(...) for the three pipeline routes, then
\* app.use("/*", urlNotFoundHandler)
MatchRoute(method, path) ==
    IF method = "GET" /\ path = "/health" THEN "/health"
    ELSE IF method = "POST" /\ path \in PipelineRoutes THEN path
    ELSE "*"

\* process.env: each variable is set or absent
Environments ==
    [PORT : {None, Some("4000")}, GITHUB_PAT : {None, Some("ghp_token")}]

QueryTexts ==
    {"", "Show total sales",
     Repeat("a", MaxQueryLength), Repeat("a", MaxQueryLength + 1)}

SentQueries ==
    {None}
    \cup {Some(Repeat(" ", p) \o q \o Repeat(" ", p)) :
            p \in 0..MaxPadding, q \in QueryTexts}

VerdictTokens == {"yes", "no", "maybe"}

ValidationContents ==
    {Join(ts, " ") :
        ts \in UNION {[1..n -> VerdictTokens] : n \in 1..MaxVerdictTokens}}
    \cup {"", " \n", " yes yes The request is clear \n", "yes  yes twice",
          "yes\tyes tab", "YES Yes Mixed case", "no no Rephrase the question",
          "yes no Unknown column", "yes yes\nThe request is clear"}

ValidationReplies ==
    GatewayFailures \cup MalformedReplies
    \cup {ContentReply(c) : c \in ValidationContents}

DenylistPairs ==
    {<<"DROP", "TABLE">>, <<"DELETE", "FROM">>, <<"ALTER", "TABLE">>,
     <<"UPDATE", "SET">>, <<"drop", "table">>, <<"Delete", "From">>}

Gaps == {Repeat(" ", n) : n \in 0..MaxGap}

SqlCandidates ==
    {p[1] \o g \o p[2] \o " sales" : p \in DenylistPairs, g \in Gaps}
    \cup {SqlSelectCategories, SqlCountSales, SqlInsertCategory, SqlUpdatePrices,
          SqlRevenuePerProduct, SqlMoveProducts,
          "select name from categories;", "SELECT 'ok'", "SELECT 'DROP TABLE'",
          "SELECT 'x' -- alter \t\n table", "drop\ttable sales",
          "SELECT nope FROM nowhere", "DROP INDEX idx"}

TranslationContents ==
    {Join(<<sql>> \o e, "; ") :
        sql \in SqlCandidates,
        e \in UNION {[1..n -> {"It reads the table"}] : n \in 0..(MaxSegments - 1)}}
    \cup {"", "SELECT 'ok'; It does not DROP TABLE sales",
          "SELECT 'ok'; first; second; third"}

TranslationReplies ==
    GatewayFailures \cup MalformedReplies
    \cup {ContentReply(c) : c \in TranslationContents}

(***************************************************************************)
(* The state machine.                                                      *)
(***************************************************************************)
Init ==
    /\ listening = FALSE
    /\ dbOpen = FALSE
    /\ tables = SeededTables
    /\ req = IdleRequest
    /\ req2 = IdleRequest
    /\ env \in Environments
    /\ exited = FALSE
    /\ seeding = SeedingDone

\* llm/client is loaded while main.ts resolves its imports: without
\* GITHUB_PAT it throws and the process ends before server.listen
ClientLoadFails ==
    /\ ~listening
    /\ ~exited
    /\ ~env.GITHUB_PAT.defined
    /\ exited' = TRUE
    /\ UNCHANGED <<listening, dbOpen, tables, req, req2, env, seeding>>

\* const PORT = 4000; server.listen(PORT, ...)
Listen ==
    /\ ~exited
    /\ env.GITHUB_PAT.defined
    /\ ~listening
    /\ listening' = TRUE
    /\ UNCHANGED <<dbOpen, tables, req, req2, env, exited, seeding>>

\* the listen callback: await openDB()
OpenDB ==
    /\ listening
    /\ ~dbOpen
    /\ dbOpen' = TRUE
    /\ UNCHANGED <<listening, tables, req, req2, env, exited, seeding>>

\* a request reaches the router
Arrive ==
    /\ listening
    /\ req.pc = "idle"
    /\ \E method \in Methods, path \in Paths, malformed \in BOOLEAN,
          sent \in SentQueries :
            /\ malformed => sent = None
            /\ req' = [IdleRequest EXCEPT
                        !.pc = "received", !.method = method, !.path = path,
                        !.malformed = malformed,
                        !.route = IF malformed THEN ""
                                  ELSE MatchRoute(method, path),
                        !.sent = sent, !.query = sent]
    /\ UNCHANGED <<listening, dbOpen, tables, req2, env, exited, seeding>>

\* express.json() passes its SyntaxError on: only the error handlers run
BodyParseFails ==
    /\ req.pc = "received"
    /\ req.malformed
    /\ req' = incorrectJSONFormatHandler(req)
    /\ UNCHANGED <<listening, dbOpen, tables, req2, env, exited, seeding>>

\* no route matched
NotFound ==
    /\ req.pc = "received"
    /\ ~req.malformed
    /\ req.route = "*"
    /\ req' = urlNotFoundHandler(req)
    /\ UNCHANGED <<listening, dbOpen, tables, req2, env, exited, seeding>>

Health ==
    /\ req.pc = "received"
    /\ req.route = "/health"
    /\ req' = healthHandler(req)
    /\ UNCHANGED <<listening, dbOpen, tables, req2, env, exited, seeding>>

Middleware ==
    /\ req.pc = "received"
    /\ req.route \in PipelineRoutes
    /\ req' = queryValidation(req)
    /\ UNCHANGED <<listening, dbOpen, tables, req2, env, exited, seeding>>

\* the validation call settles and the handler runs to its next await
ValidationSettles ==
    /\ req.pc = "awaitValidation"
    /\ \E reply \in ValidationReplies :
            LET r == SettleCall(req, reply)
            IN  req' = CASE r.route = "/query" -> queryHandlerValidated(r, reply)
                         [] r.route = "/validate" -> validateHandlerValidated(r, reply)
                         [] r.route = "/explain" -> explainHandlerValidated(r, reply)
    /\ UNCHANGED <<listening, dbOpen, tables, req2, env, exited, seeding>>

\* the translation call settles
TranslationSettles ==
    /\ req.pc = "awaitTranslation"
    /\ \E reply \in TranslationReplies :
            LET r == SettleCall(req, reply)
            IN  req' = IF r.route = "/query"
                       THEN queryHandlerTranslated(r, reply, dbOpen)
                       ELSE explainHandlerTranslated(r, reply)
    /\ UNCHANGED <<listening, dbOpen, tables, req2, env, exited, seeding>>

\* db.all(sqlQuery) settles: SQLite has run the statement
ExecutionSettles ==
    /\ req.pc = "awaitDb"
    /\ \E result \in {DbAll(req.sqlQuery.value, tables)} :
           /\ tables' = result.tables
           /\ req' = queryHandlerExecuted(SettleDb(req, result), result)
    /\ UNCHANGED <<listening, dbOpen, req2, env, exited, seeding>>

HandleError ==
    /\ req.pc = "errorHandler"
    /\ req' = globalErrorHandler(req)
    /\ UNCHANGED <<listening, dbOpen, tables, req2, env, exited, seeding>>

\* the response has gone out; the handler's locals are dropped
Finish ==
    /\ req.pc = "done"
    /\ req' = IdleRequest
    /\ UNCHANGED <<listening, dbOpen, tables, req2, env, exited, seeding>>

Next ==
    \/ ClientLoadFails
    \/ Listen
    \/ OpenDB
    \/ Arrive
    \/ BodyParseFails
    \/ NotFound
    \/ Health
    \/ Middleware
    \/ ValidationSettles
    \/ TranslationSettles
    \/ ExecutionSettles
    \/ HandleError
    \/ Finish

Spec == Init /\ [][Next]_vars

(***************************************************************************)
(* Two requests served at once. Each handler invocation has its own        *)
(* locals; the event loop runs one stretch of one handler at a time, and   *)
(* the stretches of the two requests interleave at every await.            *)
(***************************************************************************)
Slots == {1, 2}

Slot(i) == IF i = 1 THEN req ELSE req2

SetSlot(i, r) ==
    IF i = 1 THEN req' = r /\ UNCHANGED req2
    ELSE req2' = r /\ UNCHANGED req

\* what the clients send and the model answers while two requests are served
ConcSent == Some("Show total sales")

ConcValidationReplies ==
    {GatewayFailure, ContentReply("yes yes"),
     ContentReply("no no Rephrase the question")}

ConcTranslationReplies ==
    {GatewayFailure, ContentReply(SqlInsertCategory),
     ContentReply(SqlCountSales \o "; It counts the sales")}

\* .env holds both variables
InitConc ==
    /\ listening = FALSE
    /\ dbOpen = FALSE
    /\ tables = SeededTables
    /\ req = IdleRequest
    /\ req2 = IdleRequest
    /\ env = [PORT |-> Some("4000"), GITHUB_PAT |-> Some("ghp_token")]
    /\ exited = FALSE
    /\ seeding = SeedingDone

ConcArrive(i) ==
    /\ listening
    /\ Slot(i).pc = "idle"
    /\ \E path \in PipelineRoutes :
            SetSlot(i, [IdleRequest EXCEPT
                            !.pc = "received", !.method = "POST",
                            !.path = path,
                            !.route = MatchRoute("POST", path),
                            !.sent = ConcSent, !.query = ConcSent])
    /\ UNCHANGED <<listening, dbOpen, tables, env, exited, seeding>>

ConcMiddleware(i) ==
    /\ Slot(i).pc = "received"
    /\ SetSlot(i, queryValidation(Slot(i)))
    /\ UNCHANGED <<listening, dbOpen, tables, env, exited, seeding>>

\* the requests served one at a time: a reply is handled only when the other
\* request is not waiting for the gateway
ConcValidationSettlesSerial(i) ==
    /\ Slot(i).pc = "awaitValidation"
    /\ Slot(3 - i).pc \notin {"awaitValidation", "awaitTranslation"}
    /\ \E reply \in ConcValidationReplies :
            LET r == SettleCall(Slot(i), reply)
            IN  SetSlot(i,
                    CASE r.route = "/query" -> queryHandlerValidated(r, reply)
                      [] r.route = "/validate" -> validateHandlerValidated(r, reply)
                      [] r.route = "/explain" -> explainHandlerValidated(r, reply))
    /\ UNCHANGED <<listening, dbOpen, tables, env, exited, seeding>>

ConcValidationSettles(i) ==
    /\ Slot(i).pc = "awaitValidation"
    /\ \E reply \in ConcValidationReplies :
            LET r == SettleCall(Slot(i), reply)
            IN  SetSlot(i,
                    CASE r.route = "/query" -> queryHandlerValidated(r, reply)
                      [] r.route = "/validate" -> validateHandlerValidated(r, reply)
                      [] r.route = "/explain" -> explainHandlerValidated(r, reply))
    /\ UNCHANGED <<listening, dbOpen, tables, env, exited, seeding>>

ConcTranslationSettles(i) ==
    /\ Slot(i).pc = "awaitTranslation"
    /\ \E reply \in ConcTranslationReplies :
            LET r == SettleCall(Slot(i), reply)
            IN  SetSlot(i, IF r.route = "/query"
                           THEN queryHandlerTranslated(r, reply, dbOpen)
                           ELSE explainHandlerTranslated(r, reply))
    /\ UNCHANGED <<listening, dbOpen, tables, env, exited, seeding>>

ConcExecutionSettles(i) ==
    /\ Slot(i).pc = "awaitDb"
    /\ \E result \in {DbAll(Slot(i).sqlQuery.value, tables)} :
           /\ tables' = result.tables
           /\ SetSlot(i, queryHandlerExecuted(SettleDb(Slot(i), result), result))
    /\ UNCHANGED <<listening, dbOpen, env, exited, seeding>>

ConcHandleError(i) ==
    /\ Slot(i).pc = "errorHandler"
    /\ SetSlot(i, globalErrorHandler(Slot(i)))
    /\ UNCHANGED <<listening, dbOpen, tables, env, exited, seeding>>

ConcFinish(i) ==
    /\ Slot(i).pc = "done"
    /\ SetSlot(i, IdleRequest)
    /\ UNCHANGED <<listening, dbOpen, tables, env, exited, seeding>>

NextConc ==
    \/ Listen
    \/ OpenDB
    \/ \E i \in Slots :
            \/ ConcArrive(i)
            \/ ConcMiddleware(i)
            \/ ConcValidationSettles(i)
            \/ ConcTranslationSettles(i)
            \/ ConcExecutionSettles(i)
            \/ ConcHandleError(i)
            \/ ConcFinish(i)

SpecConc == InitConc /\ [][NextConc]_vars

\* The event loop runs every callback that is ready, so the synchronous
\* steps of both requests are taken. The calls of the first request return
\* or fail; nothing is assumed of the gateway calls of the second request,
\* which may stay unanswered forever.
FairSpecConc ==
    /\ SpecConc
    /\ \A i \in Slots :
            /\ WF_vars(ConcMiddleware(i))
            /\ WF_vars(ConcHandleError(i))
            /\ WF_vars(ConcExecutionSettles(i))
    /\ WF_vars(ConcValidationSettles(1))
    /\ WF_vars(ConcTranslationSettles(1))

(***************************************************************************)
(* `npm run createDB`, run again and again on the same sales.db.           *)
(***************************************************************************)
\* the first run finds sales.db empty (CREATE TABLE IF NOT EXISTS has just
\* made the tables) or as an earlier run left it
InitSeed ==
    /\ listening = FALSE
    /\ dbOpen = FALSE
    /\ tables \in {EmptyTables, SeededTables}
    /\ req = IdleRequest
    /\ req2 = IdleRequest
    /\ env = [PORT |-> Some("4000"), GITHUB_PAT |-> Some("ghp_token")]
    /\ exited = FALSE
    /\ seeding = [run |-> 1, step |-> 0]

\* the next awaited db.run of insertInitialData
SeedStep ==
    /\ seeding.step < Len(SeedStatements)
    /\ tables' = RunSeedStatement(tables, SeedStatements[seeding.step + 1])
    /\ seeding' = [seeding EXCEPT !.step = @ + 1]
    /\ UNCHANGED <<listening, dbOpen, req, req2, env, exited>>

\* createDB has closed the database; it is run once more
SeedAgain ==
    /\ seeding.step = Len(SeedStatements)
    /\ seeding.run < MaxSeedRuns
    /\ seeding' = [run |-> seeding.run + 1, step |-> 0]
    /\ UNCHANGED <<listening, dbOpen, tables, req, req2, env, exited>>

NextSeed == SeedStep \/ SeedAgain

SpecSeed == InitSeed /\ [][NextSeed]_vars

(***************************************************************************)
(* Properties.                                                             *)
(***************************************************************************)
ContainsIn(t, p) == \E i \in 1..Len(t) : StartsWithAt(t, i, p)

ContainsIgnoringCase(s, phrase) == ContainsIn(ToLowerCase(s), ToLowerCase(phrase))

OnlyWhitespace(s) == \A i \in 1..Len(s) : CharAt(s, i) \in WhitespaceChars

ErrorResponse(statusCode, errMsg) ==
    [status |-> statusCode, body |-> [error |-> errMsg]]

TranslateCalls == {i \in 1..Len(req.gatewayCalls) : req.gatewayCalls[i].kind = "translate"}

Verdict == req.validationResult.value

\* C1: a POST /query whose verdict has isValid or isAligned false is answered
\* 400 "Invalid query: <justification>" with no translation call and no
\* statement executed; a translation call is only made after a verdict with
\* both flags true.
C1_InvalidVerdictRejected ==
    /\ (/\ req.route = "/query"
        /\ req.validationResult.defined
        /\ (~Verdict.isValid \/ ~Verdict.isAligned))
       => /\ req.pc = "done"
          /\ req.responses =
                <<ErrorResponse(400, "Invalid query: " \o Verdict.justification)>>
          /\ TranslateCalls = {}
          /\ req.executed = <<>>
    /\ TranslateCalls # {}
       => /\ req.validationResult.defined
          /\ Verdict.isValid
          /\ Verdict.isAligned

C1_Witness ==
    /\ req.route = "/query"
    /\ req.pc = "done"
    /\ req.validationResult.defined
    /\ Verdict.isValid
    /\ ~Verdict.isAligned
    /\ Verdict.justification # ""

\* C2: a POST /query whose candidate SQL contains, in any letter case,
\* DROP TABLE, DELETE FROM, ALTER TABLE or UPDATE SET is answered 400
\* "Potentially destructive queries are not allowed." and the statement is
\* never handed to the store.
DenylistPhrases == {"DROP TABLE", "DELETE FROM", "ALTER TABLE", "UPDATE SET"}

ContainsDenylisted(sql) ==
    LET t == ToLowerCase(sql)
    IN  \E phrase \in DenylistPhrases : ContainsIn(t, ToLowerCase(phrase))

C2_DestructiveRejected ==
    (/\ req.route = "/query"
     /\ req.sqlQuery.defined
     /\ ContainsDenylisted(req.sqlQuery.value))
    => /\ req.pc = "done"
       /\ req.responses =
            <<ErrorResponse(400, "Potentially destructive queries are not allowed.")>>
       /\ req.executed = <<>>

C2_Witness ==
    /\ req.route = "/query"
    /\ req.pc = "done"
    /\ req.sqlQuery.defined
    /\ ContainsIgnoringCase(req.sqlQuery.value, "delete from")
    /\ ~ContainsIgnoringCase(req.sqlQuery.value, "DROP TABLE")

\* C3: the dataset is read-only from the API: whatever the requests and the
\* model replies, the tables keep the contents they had after seeding.
C3_DatasetReadOnly == tables = SeededTables

\* the request has gone through the middleware
PastMiddleware == req.route \in PipelineRoutes /\ req.pc # "received"

TooLongResponse ==
    ErrorResponse(400, "Query can only be a maximum of 500 characters")

\* C4 as stated: a request to /query, /validate or /explain whose query is
\* longer than 500 characters is answered 400 "Query can only be a maximum
\* of 500 characters" and makes no gateway call.
C4_SentTooLongRejected ==
    (/\ PastMiddleware
     /\ req.sent.defined
     /\ Len(req.sent.value) > MaxQueryLength)
    => /\ req.pc = "done"
       /\ req.responses = <<TooLongResponse>>
       /\ req.gatewayCalls = <<>>

\* C4 amended: a request to /query, /validate or /explain whose query, with
\* its leading and trailing whitespace removed, is longer than 500
\* characters is answered 400 "Query can only be a maximum of 500
\* characters" and makes no gateway call.
C4_TrimmedTooLongRejected ==
    (/\ PastMiddleware
     /\ req.sent.defined
     /\ Len(Trim(req.sent.value)) > MaxQueryLength)
    => /\ req.pc = "done"
       /\ req.responses = <<TooLongResponse>>
       /\ req.gatewayCalls = <<>>

C4_Witness ==
    /\ req.route = "/explain"
    /\ req.pc = "done"
    /\ req.sent.defined
    /\ Len(req.sent.value) > MaxQueryLength + 1
    /\ Len(Trim(req.sent.value)) = MaxQueryLength + 1
    /\ req.responses = <<TooLongResponse>>

\* C5: a request to /query, /validate or /explain whose body has no query
\* field, or an empty one, is answered 400 {"error": "Query is required"}
\* and makes no gateway call and no store access.
C5_MissingQueryRejected ==
    (/\ PastMiddleware
     /\ (~req.sent.defined \/ req.sent.value = ""))
    => /\ req.pc = "done"
       /\ req.responses = <<ErrorResponse(400, "Query is required")>>
       /\ req.gatewayCalls = <<>>
       /\ req.executed = <<>>

C5_Witness ==
    /\ req.route = "/query"
    /\ req.pc = "done"
    /\ ~req.sent.defined
    /\ req.responses # <<>>

\* the reply of the validation call carries nothing to parse
NothingToParse(reply) ==
    \/ reply.kind \in {"noChoices", "emptyChoices", "noMessage", "nullContent"}
    \/ reply.kind = "content" /\ OnlyWhitespace(reply.content)

ValidationSettled ==
    /\ req.gatewayCalls # <<>>
    /\ req.gatewayCalls[1].reply.defined

ValidationReply == req.gatewayCalls[1].reply.value

\* C6: when the validation call returns no choices, or a first choice whose
\* content is missing, empty or only whitespace, validateQuery returns
\* {false, false, "Failed to validate query."} without raising: the request
\* ends with a 400 and reaches neither translation nor the store.
C6_FailClosedValidation ==
    (ValidationSettled /\ NothingToParse(ValidationReply))
    => /\ req.validationResult = Some(FailedVerdict)
       /\ req.nextErrors = <<>>
       /\ req.pc = "done"
       /\ req.responses =
            <<ErrorResponse(400, "Invalid query: Failed to validate query.")>>
       /\ Len(req.gatewayCalls) = 1
       /\ req.executed = <<>>

C6_Witness ==
    /\ req.route = "/query"
    /\ req.pc = "done"
    /\ ValidationSettled
    /\ ValidationReply.kind = "content"
    /\ ValidationReply.content # ""
    /\ OnlyWhitespace(ValidationReply.content)

\* C7: when a gateway call fails (the validation call or the translation
\* call), the error goes to the catch-all of the handler, the request ends
\* with a 500 error envelope, no later stage runs and the call is not
\* made again.
FailedCalls ==
    {i \in 1..Len(req.gatewayCalls) :
        /\ req.gatewayCalls[i].reply.defined
        /\ req.gatewayCalls[i].reply.value.kind = "error"}

C7_GatewayFailureIsTerminal ==
    \A i \in FailedCalls :
        /\ i = Len(req.gatewayCalls)
        /\ Len(req.nextErrors) = 1
        /\ req.executed = <<>>
        /\ \/ req.pc = "errorHandler" /\ req.responses = <<>>
           \/ /\ req.pc = "done"
              /\ Len(req.responses) = 1
              /\ req.responses[1].status = 500
              /\ DOMAIN req.responses[1].body = {"error"}

C7_Witness ==
    /\ req.route = "/query"
    /\ req.pc = "done"
    /\ FailedCalls = {2}

\* C8: when the translation reply has no content, POST /query answers 500
\* "Failed to generate SQL query" and POST /explain answers 500, and nothing
\* is executed; a translation reply without choices also ends in a 500 with
\* nothing executed.
TranslationSettled ==
    /\ Len(req.gatewayCalls) = 2
    /\ req.gatewayCalls[2].reply.defined

TranslationReply == req.gatewayCalls[2].reply.value

C8_EmptyTranslationIsServerError ==
    /\ (/\ TranslationSettled
        /\ \/ TranslationReply.kind = "nullContent"
           \/ TranslationReply.kind = "content" /\ TranslationReply.content = "")
       => /\ req.pc = "done"
          /\ Len(req.responses) = 1
          /\ req.responses[1].status = 500
          /\ req.route = "/query"
             => req.responses[1].body = [error |-> "Failed to generate SQL query"]
          /\ req.executed = <<>>
          /\ req.nextErrors = <<>>
    /\ (/\ TranslationSettled
        /\ TranslationReply.kind \in {"noChoices", "emptyChoices"})
       => /\ req.executed = <<>>
          /\ \/ req.pc = "errorHandler" /\ req.responses = <<>>
             \/ /\ req.pc = "done"
                /\ Len(req.responses) = 1
                /\ req.responses[1].status = 500

C8_Witness ==
    /\ req.route = "/query"
    /\ req.pc = "done"
    /\ TranslationSettled
    /\ TranslationReply = ContentReply("")

\* C9: an error raised while the approved SQL runs on the store is caught in
\* queryHandler and answered 500 "Failed to execute SQL query"; it is not
\* passed to the global error handler and no success response is sent.
C9_ExecutionErrorCaught ==
    \A i \in 1..Len(req.executed) :
        req.executed[i].outcome = "error"
        => /\ req.pc = "done"
           /\ req.responses = <<ErrorResponse(500, "Failed to execute SQL query")>>
           /\ req.nextErrors = <<>>
           /\ ~req.rows.defined

C9_Witness ==
    /\ req.pc = "done"
    /\ req.executed # <<>>
    /\ req.executed[1].outcome = "error"
    /\ req.executed[1].sql = SqlInsertCategory

\* C10: every 200 response of POST /query carries the four fields message,
\* sqlQuery, rows and explanation; sqlQuery is the statement that was
\* executed and passed the Safety Gate, rows is the result of that one
\* execution, and the 200 comes only after validation passed, the gate did
\* not match and the execution succeeded.
C10_SuccessResponseComplete ==
    (/\ req.route = "/query"
     /\ req.responses # <<>>
     /\ req.responses[1].status = 200)
    => /\ Len(req.responses) = 1
       /\ DOMAIN req.responses[1].body =
            {"message", "sqlQuery", "rows", "explanation"}
       /\ req.executed =
            <<[sql |-> req.responses[1].body.sqlQuery, outcome |-> "ok"]>>
       /\ ~ContainsDenylisted(req.responses[1].body.sqlQuery)
       /\ req.rows = Some(req.responses[1].body.rows)
       /\ req.validationResult.defined
       /\ Verdict.isValid
       /\ Verdict.isAligned

\* C11: POST /validate and POST /explain never touch the store: no step of
\* such a request changes a table, hands a statement to db.all or reaches
\* for the connection, whatever was sent and whatever the model replied.
C11_ReadOnlyEndpoints ==
    [][req'.route \in {"/validate", "/explain"}
        => /\ tables' = tables
           /\ req'.executed = <<>>
           /\ ~req'.dbHandle.defined]_vars

\* /explain answered 200 with a statement that would have written
C11_Witness ==
    /\ req.route = "/explain"
    /\ req.pc = "done"
    /\ req.responses # <<>>
    /\ req.responses[1].status = 200
    /\ req.sqlQuery = Some(SqlMoveProducts)
    /\ req.executed = <<>>

\* the per-product revenue of the sample data
ExpectedRevenue ==
    <<<<"Laptop", 1200>>, <<"Smartphone", 800>>, <<"Tablet", 500>>,
      <<"Desk", 300>>, <<"Chair", 150>>, <<"Sofa", 700>>, <<"T-Shirt", 25>>,
      <<"Jeans", 40>>, <<"Jacket", 100>>, <<"Milk", 5>>, <<"Bread", 3>>>>

ExpectedRows ==
    [i \in 1..Len(ExpectedRevenue) |->
        [name |-> ExpectedRevenue[i][1],
         total_sales |-> Some(ExpectedRevenue[i][2])]]

RevenueQueryExecuted ==
    /\ req.route = "/query"
    /\ req.pc = "done"
    /\ req.executed = <<[sql |-> SqlRevenuePerProduct, outcome |-> "ok"]>>
    /\ tables = SeededTables

\* C12: run on the seeded dataset, the "total revenue per product" query
\* returns exactly 11 rows, one per product, each total being the product's
\* seeded revenue (Laptop 1200, Smartphone 800, ..., Bread 3).
C12_SeededRevenuePerProduct ==
    RevenueQueryExecuted
    => /\ Len(req.rows.value) = 11
       /\ req.rows = Some(ExpectedRows)
       /\ req.responses[1].status = 200
       /\ req.responses[1].body.rows = ExpectedRows

C12_Witness ==
    /\ RevenueQueryExecuted
    /\ req.responses # <<>>
    /\ req.responses[1].status = 200

UniqueNames(rows) ==
    \A i, j \in 1..Len(rows) : rows[i].name = rows[j].name => i = j

\* C13: every product's category_id references an existing category, every
\* sale's product_id references an existing product, and category names and
\* product names are unique, after seeding and in every later state.
C13_ReferentialIntegrity ==
    /\ \A i \in 1..Len(tables.products) :
            \E j \in 1..Len(tables.categories) :
                tables.categories[j].id = tables.products[i].category_id
    /\ \A i \in 1..Len(tables.sales) :
            \E j \in 1..Len(tables.products) :
                tables.products[j].id = tables.sales[i].product_id
    /\ UniqueNames(tables.categories)
    /\ UniqueNames(tables.products)

PendingCalls ==
    {i \in 1..Len(req.gatewayCalls) : ~req.gatewayCalls[i].reply.defined}

PendingReads ==
    {i \in 1..Len(req.executed) : req.executed[i].outcome = "pending"}

StageOrder == <<"validate", "translate">>

\* C14: within one POST /query the stages run in the order validation call,
\* translation call, storage read; each runs at most once, each starts only
\* after the one before has returned, and a failure or a rejection at a
\* stage ends the request with no later stage run.
C14_StagesInOrder ==
    req.route = "/query"
    => /\ Len(req.gatewayCalls) <= 2
       /\ Len(req.executed) <= 1
       /\ \A i \in 1..Len(req.gatewayCalls) :
                req.gatewayCalls[i].kind = StageOrder[i]
       /\ Cardinality(PendingCalls) + Cardinality(PendingReads) <= 1
       /\ Len(req.gatewayCalls) = 2
            => /\ req.gatewayCalls[1].reply.defined
               /\ req.gatewayCalls[1].reply.value.kind = "content"
               /\ req.validationResult.defined
               /\ Verdict.isValid
               /\ Verdict.isAligned
       /\ (req.executed # <<>> \/ req.dbHandle.defined)
            => /\ TranslationSettled
               /\ TranslationReply.kind = "content"
               /\ TranslationReply.content # ""
               /\ req.sqlQuery.defined
       /\ req.pc \in {"done", "errorHandler"}
            => /\ PendingCalls = {}
               /\ PendingReads = {}
               /\ Len(req.nextErrors) <= 1
               /\ Len(req.responses) = (IF req.pc = "done" THEN 1 ELSE 0)
       /\ (req.responses # <<>> /\ req.responses[1].status = 400)
            => req.executed = <<>> /\ ~req.dbHandle.defined
       /\ req.nextErrors # <<>> => req.executed = <<>> /\ ~req.dbHandle.defined

\* a request that went through the three stages
C14_Witness ==
    /\ req.route = "/query"
    /\ req.pc = "done"
    /\ Len(req.gatewayCalls) = 2
    /\ Len(req.executed) = 1
    /\ req.responses # <<>>
    /\ req.responses[1].status = 200

\* C15: the connection is opened once at process start and every storage
\* execution runs on it: whenever a request calls db.all, the handle has
\* already been assigned by openDB.
C15_ExecutionOnOpenConnection ==
    req.dbHandle.defined => req.dbHandle.value

ErrorEnvelope(statusCode) ==
    /\ Len(req.responses) = 1
    /\ req.responses[1].status = statusCode
    /\ DOMAIN req.responses[1].body = {"error"}

\* C16: a request no route matches is answered 404, a body that is not
\* JSON 400, an exception no handler caught 500, each with the {error}
\* envelope; POST /query, POST /validate and POST /explain are matched
\* routes and are never answered 404.
C16_UniformErrors ==
    /\ (req.route = "*" /\ req.pc = "done") => ErrorEnvelope(404)
    /\ (req.malformed /\ req.pc = "done") => ErrorEnvelope(400)
    /\ (req.nextErrors # <<>> /\ req.pc = "done") => ErrorEnvelope(500)
    /\ (/\ req.method = "POST"
        /\ req.path \in PipelineRoutes
        /\ ~req.malformed)
        => /\ req.route = req.path
           /\ \A i \in 1..Len(req.responses) : req.responses[i].status # 404

\* a POST to a path without a route has been answered
C16_Witness ==
    /\ req.method = "POST"
    /\ req.path = "/unknown"
    /\ ~req.malformed
    /\ req.pc = "done"
    /\ req.responses # <<>>

\* C17: GET /health is answered 200 {message: "I'm fine!"} without a call
\* to the model gateway and without touching the store, whether or not the
\* connection is open.
C17_HealthIsIndependent ==
    (req.method = "GET" /\ req.path = "/health" /\ ~req.malformed)
    => /\ req.route = "/health"
       /\ req.gatewayCalls = <<>>
       /\ req.executed = <<>>
       /\ ~req.dbHandle.defined
       /\ req.nextErrors = <<>>
       /\ req.pc \in {"received", "done"}
       /\ req.pc = "done"
            => req.responses =
                 <<[status |-> 200, body |-> [message |-> "I'm fine!"]]>>

\* the health check answered before the connection was opened
C17_Witness ==
    /\ req.method = "GET"
    /\ req.path = "/health"
    /\ req.pc = "done"
    /\ req.responses # <<>>
    /\ ~dbOpen

\* C18: start-up fails, and the server never accepts a request, when the
\* port number or the access token of the model endpoint is absent from
\* the environment.
C18_MissingEnvIsFatal ==
    (~env.PORT.defined \/ ~env.GITHUB_PAT.defined) => ~listening

\* the text a response carries: message of a success, error of a failure
SentText(response) ==
    IF "error" \in DOMAIN response.body THEN response.body.error
    ELSE response.body.message

\* C19: for every response that goes out, exactly one RESPONSE entry is
\* logged, with the method, the path and the status code of the response
\* and the message or error text that is sent to the client.
C19_ResponseLogged ==
    /\ Len(req.log) = Len(req.responses)
    /\ \A i \in 1..Len(req.responses) :
            req.log[i] = [method |-> req.method, path |-> req.path,
                          status |-> req.responses[i].status,
                          message |-> SentText(req.responses[i])]

\* C20: on POST /query and on POST /explain, when the generated SQL
\* contains DROP TABLE, DELETE FROM, ALTER TABLE or UPDATE SET the request
\* is answered with a 400 error and the SQL is not returned in a success.
C20_DestructiveBlockedEverywhere ==
    (/\ req.route \in {"/query", "/explain"}
     /\ req.pc = "done"
     /\ req.sqlQuery.defined
     /\ ContainsDenylisted(req.sqlQuery.value))
    => ErrorEnvelope(400)

\* the request r served alone on the seeded store, with the replies r got
Alone(r) ==
    LET open == IF r.dbHandle.defined THEN r.dbHandle.value ELSE TRUE
        r0 == [IdleRequest EXCEPT
                    !.pc = "received", !.method = r.method, !.path = r.path,
                    !.malformed = r.malformed, !.route = r.route,
                    !.sent = r.sent, !.query = r.sent]
        r1 == queryValidation(r0)
        v == r.gatewayCalls[1].reply.value
        r1s == SettleCall(r1, v)
        r2 == IF r1.pc # "awaitValidation" THEN r1
              ELSE CASE r.route = "/query" -> queryHandlerValidated(r1s, v)
                     [] r.route = "/validate" -> validateHandlerValidated(r1s, v)
                     [] r.route = "/explain" -> explainHandlerValidated(r1s, v)
        t == r.gatewayCalls[2].reply.value
        r2s == SettleCall(r2, t)
        r3 == IF r2.pc # "awaitTranslation" THEN r2
              ELSE IF r.route = "/query"
                   THEN queryHandlerTranslated(r2s, t, open)
                   ELSE explainHandlerTranslated(r2s, t)
        result == DbAll(r3.sqlQuery.value, SeededTables)
        r4 == IF r3.pc # "awaitDb" THEN r3
              ELSE queryHandlerExecuted(SettleDb(r3, result), result)
    IN  IF r4.pc = "errorHandler" THEN globalErrorHandler(r4) ELSE r4

\* C21: requests are handled independently: under any interleaving of two
\* requests, the response of each is the one it would get served alone,
\* with the same model replies, on the seeded dataset.
C21_RequestsIndependent ==
    \A i \in Slots :
        Slot(i).pc = "done" => Slot(i).responses = Alone(Slot(i)).responses

\* the whitespace-delimited tokens of s
WhitespaceTokens(s) ==
    LET t == Trim(CollapseWhitespace(s))
    IN  IF t = "" THEN <<>> ELSE Split(t, " ")

VerdictOfTokens(tokens) ==
    [isValid |-> ToLowerCase(tokens[1]) = "yes",
     isAligned |-> ToLowerCase(tokens[2]) = "yes",
     justification |-> Join(SubSeq(tokens, 3, Len(tokens)), " ")]

\* C22: for a validation reply, isValid is true iff its first
\* whitespace-delimited token is "yes" in any letter case, isAligned iff
\* its second one is, and justification is the remaining tokens joined
\* with single spaces.
C22_VerdictFromTokens ==
    (/\ ValidationSettled
     /\ ValidationReply.kind = "content"
     /\ Len(WhitespaceTokens(ValidationReply.content)) >= 2)
    => req.validationResult =
         Some(VerdictOfTokens(WhitespaceTokens(ValidationReply.content)))

\* C23: a non-empty translation reply is split on "; " into exactly two
\* parts, the statement and the explanation, and statement + "; " +
\* explanation is the reply: nothing is lost and the explanation is
\* always defined.
C23_SplitReproducesReply ==
    (/\ TranslationSettled
     /\ TranslationReply.kind = "content"
     /\ TranslationReply.content # ""
     /\ req.sqlQuery.defined)
    => /\ req.explanation.defined
       /\ req.sqlQuery.value \o "; " \o req.explanation.value
            = TranslationReply.content

\* sql holds one of the four word pairs, in any letter case, with one or
\* more whitespace characters between the two words
HoldsWordPair(sql) ==
    LET t == CollapseWhitespace(ToLowerCase(sql))
    IN  \E phrase \in DenylistPhrases : ContainsIn(t, ToLowerCase(phrase))

GateRejected ==
    req.responses =
        <<ErrorResponse(400, "Potentially destructive queries are not allowed.")>>

\* C24: the Safety Gate rejects the generated SQL iff it holds DROP TABLE,
\* DELETE FROM, ALTER TABLE or UPDATE SET in any letter case with one or
\* more whitespace characters between the two words; it rejects a pair
\* inside a string literal and lets through UPDATE products SET, INSERT
\* INTO and DROP INDEX.
C24_GateIsWordPairDenylist ==
    (req.route = "/query" /\ req.sqlQuery.defined)
    => /\ GateRejected <=> HoldsWordPair(req.sqlQuery.value)
       /\ req.sqlQuery.value = "SELECT 'DROP TABLE'" => GateRejected
       /\ req.sqlQuery.value
            \in {SqlUpdatePrices, SqlInsertCategory, "DROP INDEX idx"}
            => ~GateRejected

\* the pair is separated by a tab and the statement was rejected
C24_Witness ==
    /\ req.route = "/query"
    /\ req.sqlQuery = Some("drop\ttable sales")
    /\ req.pc = "done"
    /\ GateRejected

\* the messages of the errors the gateway and the store can fail with
ErrorDetails ==
    {f.content : f \in GatewayFailures}
    \cup {SqlError(EmptyTables).detail, SqlConstraintError(EmptyTables).detail}

\* the storage read of the request failed: db.all rejected, or there was no
\* connection to call it on
StorageFailed ==
    \/ req.dbHandle = Some(FALSE)
    \/ \E i \in 1..Len(req.executed) : req.executed[i].outcome = "error"

\* C25: the response to a request whose gateway call or storage read failed
\* is fixed by the stage alone, whatever the content of the error: 500
\* "Server Side Error" after a gateway failure (validation or translation
\* call, on /query, /validate and /explain), 500 "Failed to execute SQL
\* query" after a storage failure; no message of an underlying error is the
\* error or the message of any response body.
C25_NoErrorDetailReachesClient ==
    req.pc = "done"
    => /\ FailedCalls # {}
            => req.responses = <<ErrorResponse(500, "Server Side Error")>>
       /\ StorageFailed
            => req.responses = <<ErrorResponse(500, "Failed to execute SQL query")>>
       /\ \A i \in 1..Len(req.responses) :
            \A f \in DOMAIN req.responses[i].body \cap {"error", "message"} :
                req.responses[i].body[f] \notin ErrorDetails

\* a translation call of POST /query failed with "401 Bad credentials" and
\* the request was answered
C25_Witness ==
    /\ req.route = "/query"
    /\ req.pc = "done"
    /\ \E i \in FailedCalls :
            /\ req.gatewayCalls[i].kind = "translate"
            /\ req.gatewayCalls[i].reply.value = GatewayRefusal
    /\ req.nextErrors = <<GatewayRefusal.content>>

\* the request in slot i waits for a gateway call
AwaitsGateway(i) == Slot(i).pc \in {"awaitValidation", "awaitTranslation"}

\* the request in slot i leaves its wait only by the reply of the call it
\* waits for: nothing times the call out or cancels it
LeavesWaitByReply(i) ==
    LET r == Slot(i)
        rNext == IF i = 1 THEN req' ELSE req2'
    IN  (AwaitsGateway(i) /\ rNext # r)
        => /\ Len(rNext.gatewayCalls) >= Len(r.gatewayCalls)
           /\ rNext.gatewayCalls[Len(r.gatewayCalls)].reply.defined

\* C26: a request whose gateway and storage calls all return or fail is
\* eventually answered, even while the gateway call of another request
\* never returns; a waiting request leaves its wait only by the reply of
\* its call (no timeout, no cancellation).
C26_AnsweredUnlessCallHangs ==
    /\ (req.pc = "received") ~> (req.pc = "done" /\ Len(req.responses) = 1)
    /\ [][\A i \in Slots : LeavesWaitByReply(i)]_vars

\* the first request made a gateway call and was answered while the second
\* still waits for its validation call
C26_Witness ==
    /\ req.pc = "done"
    /\ Len(req.gatewayCalls) >= 1
    /\ Len(req.responses) = 1
    /\ req2.pc = "awaitValidation"
    /\ PendingCalls = {}

\* C27: a request to POST /query, /validate or /explain gets exactly one
\* outcome from the middleware and its handler: one response sent, or one
\* hand-over to the error handler by next(err), never both and never two
\* responses; while a call is awaited there is no outcome yet.
C27_ExactlyOneOutcome ==
    req.route \in PipelineRoutes
    => /\ Len(req.responses) <= 1
       /\ Len(req.nextErrors) <= 1
       /\ Len(req.log) = Len(req.responses)
       /\ req.pc \in {"received", "awaitValidation", "awaitTranslation", "awaitDb"}
            => req.responses = <<>> /\ req.nextErrors = <<>>
       /\ req.pc = "errorHandler"
            => req.responses = <<>> /\ Len(req.nextErrors) = 1
       /\ req.pc = "done"
            => /\ Len(req.responses) = 1
               /\ req.nextErrors # <<>>
                    => req.responses = <<ErrorResponse(500, "Server Side Error")>>

\* POST /explain handed to the error handler with no response sent
C27_Witness ==
    /\ req.route = "/explain"
    /\ req.pc = "errorHandler"
    /\ Len(req.nextErrors) = 1
    /\ req.responses = <<>>
    /\ Len(req.gatewayCalls) = 2

\* the validation reply is text with fewer than two space-separated tokens
OneTokenReply ==
    /\ ValidationSettled
    /\ ValidationReply.kind = "content"
    /\ Trim(ValidationReply.content) # ""
    /\ Len(Split(Trim(ValidationReply.content), " ")) < 2

\* C28: for a validation reply of fewer than two space-separated tokens
\* ("no", "yes") validateQuery returns a verdict with isAligned false and
\* raises nothing: the request is answered 400 and not 500.
C28_OneTokenReplyRejected ==
    OneTokenReply
    => /\ req.nextErrors = <<>>
       /\ req.validationResult.defined
       /\ ~Verdict.isAligned
       /\ req.pc = "done" => req.responses[1].status = 400

\* the query strings handed to the gateway calls of the request
PromptQueries == {req.gatewayCalls[i].query : i \in 1..Len(req.gatewayCalls)}

\* C29: every query string that reaches validateQuery or a prompt is the
\* sent query trimmed, is not empty, has no leading or trailing whitespace
\* and has at most 500 characters; the limit bears on the trimmed value, so
\* a query of at most 500 characters between whitespace is let through;
\* a query of whitespace only is answered 400 "Query is required".
C29_PromptQueryPassedMiddleware ==
    /\ \A q \in PromptQueries :
            /\ q # ""
            /\ Trim(q) = q
            /\ Len(q) <= MaxQueryLength
            /\ req.sent.defined /\ q = Trim(req.sent.value)
    /\ (/\ PastMiddleware
        /\ req.sent.defined
        /\ Trim(req.sent.value) # ""
        /\ Len(Trim(req.sent.value)) <= MaxQueryLength)
       => PromptQueries = {Trim(req.sent.value)}
    /\ (/\ PastMiddleware
        /\ req.sent.defined
        /\ req.sent.value # ""
        /\ OnlyWhitespace(req.sent.value))
       => /\ req.responses = <<ErrorResponse(400, "Query is required")>>
          /\ PromptQueries = {}

\* a query of 500 characters between two spaces reached the gateway trimmed
C29_Witness ==
    /\ req.sent.defined
    /\ Len(req.sent.value) > MaxQueryLength
    /\ PromptQueries # {}
    /\ \A q \in PromptQueries : Len(q) = MaxQueryLength

\* no two rows of a table agree on what its seeding statement looks up
NoDuplicateRows(t) ==
    /\ \A i, j \in 1..Len(t.categories) :
            t.categories[i].name = t.categories[j].name => i = j
    /\ \A i, j \in 1..Len(t.products) :
            t.products[i].name = t.products[j].name => i = j
    /\ \A i, j \in 1..Len(t.sales) :
            (/\ t.sales[i].product_id = t.sales[j].product_id
             /\ t.sales[i].sale_date = t.sales[j].sale_date) => i = j

\* C30: however many times the initialization is run, on an empty or on a
\* seeded store, each finished run leaves 4 categories, 11 products and 11
\* sales rows with the contents of the first run; no statement inserts a
\* duplicate (a duplicate name would fail on the UNIQUE constraint), and
\* running the initialization on its own result changes nothing.
C30_SeedingIdempotent ==
    /\ NoDuplicateRows(tables)
    /\ seeding.step = Len(SeedStatements)
        => /\ tables = SeededTables
           /\ Len(tables.categories) = 4
           /\ Len(tables.products) = 11
           /\ Len(tables.sales) = 11
           /\ insertInitialData(tables) = tables
    /\ seeding.run > 1 => tables = SeededTables

\* a second run has finished on the store the first run left
C30_Witness ==
    /\ seeding.run = 2
    /\ seeding.step = Len(SeedStatements)
    /\ Len(tables.sales) = 11

====
